---- MODULE Spec2Model ----
(***************************************************************************)
(* Model of the speaking-style profiling engine of alter-ego:              *)
(* server/services/learning.js (analyzer and profile store) together with  *)
(* the routes, settings and conversation log that drive it.                *)
(*                                                                         *)
(* A JavaScript string is modelled as the sequence of its UTF-16 code      *)
(* units; every kana or kanji of the vocabulary lists is one code unit     *)
(* and is written here by a romanised name ("da", "yo", "K_ore", ...).     *)
(* A JavaScript object used as a map is a record [order, count]: the       *)
(* property order (insertion order) and the value of every property.       *)
(* A JavaScript number that is not an integer counter is a binary          *)
(* floating-point value <<m, e>> (m * 2^e) rounded to nearest-even.        *)
(***************************************************************************)
EXTENDS Integers, Sequences, FiniteSets, TLC

\* ------------------------------------------------------------- bounds
\* Significand width of the floating-point model (binary64 has 53; the
\* arithmetic below is generic in the width).
MantBits == 8
\* Smallest exponent: the least positive value is 2^-SubnormalBits
\* (binary64: 1074).
SubnormalBits == 16
\* Requests handled in one behaviour of the system specification.
MaxOps == 3
\* Requests handled in one behaviour of the concurrent specification, and
\* how many of them can be in flight at once.
MaxServed == 3
MaxInflight == 2
\* Messages folded in one behaviour of the analyzer specification.
MaxMsgs == 8
\* Messages mined in the phrase specification.
MaxMines == 3
MaxHistoryOps == 4
MaxWordMsgs == 3

\* ---------------------------------------------------- vocabulary lists
JAPANESE_SENTENCE_ENDERS ==
  << <<"da","yo","ne">>, <<"da","yo","na">>, <<"ji","xya","n">>,
     <<"ji","xya","ne">>, <<"ka","na">>, <<"ka","mo">>,
     <<"da","ne">>, <<"da","na">>, <<"yo","ne">>, <<"yo","na">>,
     <<"wa","ne">>, <<"no","yo">>, <<"no","ne">>,
     <<"de","su","ne">>, <<"de","su","yo">>, <<"ma","su","ne">>,
     <<"ma","su","yo">>, <<"de","shi","xyo">>, <<"de","shi","xyo","u">>,
     <<"da","ro","u">>, <<"da","ro">>, <<"xtu","su">>,
     <<"xtu","su","ne">>, <<"xtu","su","yo">>,
     <<"ya","n">>, <<"ya","n","na">>, <<"ya","n","ne">>, <<"ya","de">>,
     <<"ya","ne","n">>,
     <<"da","ze">>, <<"da","zo">>, <<"ze">>, <<"zo">>, <<"sa">>, <<"na">>,
     <<"ne">>, <<"yo">>, <<"wa">> >>

FILLER_WORDS ==
  << <<"e","-","to">>, <<"e","xtu","to">>, <<"a","no","-">>, <<"a","no">>,
     <<"ma","a">>, <<"na","n","ka">>,
     <<"chi","xyo","xtu","to">>, <<"ya","xtu","pa","ri">>,
     <<"ya","xtu","pa">>, <<"to","ri","a","e","zu">>, <<"K_ichi","K_ou">>,
     <<"ho","n","to">>, <<"MA","JI","de">>, <<"ma","ji","de">>,
     <<"bu","xtu","chi","xya","ke">>, <<"xtu","te","i","u","ka">>,
     <<"na","n","te","i","u","ka">>, <<"so","u","da","na">>,
     <<"u","-","n">>, <<"e","e","to">> >>

FIRST_PERSON_PRONOUNS ==
  << <<"K_ore">>, <<"K_boku">>, <<"K_watashi">>, <<"wa","ta","shi">>,
     <<"a","ta","shi">>, <<"u","chi">>, <<"K_ji","K_bun">>, <<"wa","shi">>,
     <<"o","i","ra">> >>

POLITENESS_MARKERS ==
  [ formal |-> << <<"de","su">>, <<"ma","su">>, <<"go","za","i","ma","su">>,
                  <<"i","ta","shi","ma","su">>, <<"ku","da","sa","ru">>,
                  <<"de","shi","xyo","u","ka">> >>,
    casual |-> << <<"da","yo">>, <<"da","ze">>, <<"ji","xya","n">>,
                  <<"xtu","su">>, <<"da","ro">>, <<"da","na">>,
                  <<"ya","n">> >> ]

\* The characters of the class [\s、。！？!?,.\n\r]: white space, the
\* ideographic comma and full stop, full-width and ASCII ! and ?, comma, dot.
SEPARATORS == {" ", "NL", "CR", "TOUTEN", "KUTEN", "ZEN!", "ZEN?", "!", "?", ",", "."}

\* ------------------------------------------------------- string helpers
Range(s) == {s[i] : i \in 1..Len(s)}

Min(a, b) == IF a <= b THEN a ELSE b
Max(a, b) == IF a >= b THEN a ELSE b

\* String.prototype.substring(i, i + n), 0-based i.
substring(text, i, n) == SubSeq(text, i + 1, i + n)

\* String.prototype.includes
includes(text, pat) ==
  \E i \in 0..(Len(text) - Len(pat)) : substring(text, i, Len(pat)) = pat

\* /^[\s、。！？!?,.\n\r]+$/.test(phrase)
IsSeparatorOnly(phrase) == Len(phrase) > 0 /\ Range(phrase) \subseteq SEPARATORS

\* text.split(/[\s、。！？!?,.\n\r]+/).filter(Boolean): the maximal runs of
\* characters that are not separators, in text order. RunStarts are the
\* positions at which a run starts, RunEnd(text, i) the last position of
\* the run that starts at i.
RunStarts(text) ==
  {i \in 1..Len(text) :
     text[i] \notin SEPARATORS /\ (i = 1 \/ text[i - 1] \in SEPARATORS)}

RunEnd(text, i) ==
  CHOOSE j \in i..Len(text) :
    /\ \A k \in i..j : text[k] \notin SEPARATORS
    /\ j = Len(text) \/ text[j + 1] \in SEPARATORS

Split(text) ==
  LET starts == RunStarts(text)
      nth(n) == CHOOSE i \in starts : Cardinality({j \in starts : j < i}) = n - 1
  IN [n \in 1..Cardinality(starts) |-> SubSeq(text, nth(n), RunEnd(text, nth(n)))]

\* tokenize returns `rough`: the n-gram tokens it builds are discarded.
tokenize(text) == Split(text)

\* ------------------------------------------------------- floating point
RECURSIVE Pow2(_)
Pow2(k) == IF k <= 0 THEN 1 ELSE 2 * Pow2(k - 1)

RECURSIVE BitLen(_)
BitLen(n) == IF n <= 0 THEN 0 ELSE 1 + BitLen(n \div 2)

Abs(n) == IF n < 0 THEN -n ELSE n
Sign(n) == IF n < 0 THEN -1 ELSE 1

\* The canonical pair of the value m * 2^e: odd m, or <<0, 0>>.
RECURSIVE Canon(_, _)
Canon(m, e) ==
  IF m = 0 THEN <<0, 0>>
  ELSE IF m % 2 = 0 THEN Canon(m \div 2, e + 1)
  ELSE <<m, e>>

\* Round m * 2^e to the nearest value with at most MantBits significant
\* bits and exponent at least -SubnormalBits, ties to even.
FRound(m, e) ==
  LET a == Abs(m)
      k == Max(BitLen(a) - MantBits, (0 - SubnormalBits) - e)
  IN IF m = 0 THEN <<0, 0>>
     ELSE IF k <= 0 THEN Canon(m, e)
     ELSE LET q == a \div Pow2(k)
              r == a % Pow2(k)
              half == Pow2(k - 1)
              q2 == IF r > half \/ (r = half /\ q % 2 = 1) THEN q + 1 ELSE q
          IN Canon(Sign(m) * q2, e + k)

FInt(n) == FRound(n, 0)

FMul(x, y) == FRound(x[1] * y[1], x[2] + y[2])

FAdd(x, y) ==
  LET e == Min(x[2], y[2])
  IN FRound(x[1] * Pow2(x[2] - e) + y[1] * Pow2(y[2] - e), e)

FSub(x, y) == FAdd(x, <<0 - y[1], y[2]>>)

\* x / y for y # 0: the quotient is computed to MantBits + 2 bits and a
\* sticky bit, which rounds as the exact quotient does.
FDiv(x, y) ==
  LET n == Abs(x[1])
      d == Abs(y[1])
      s == Max(0, MantBits + 2 + BitLen(d) - BitLen(n))
      q == (n * Pow2(s)) \div d
      st == IF (n * Pow2(s)) % d = 0 THEN 0 ELSE 1
  IN FRound(Sign(x[1]) * Sign(y[1]) * (2 * q + st), x[2] - y[2] - s - 1)

\* x < y, x <= y on floating-point values.
FLess(x, y) ==
  LET e == Min(x[2], y[2])
  IN x[1] * Pow2(x[2] - e) < y[1] * Pow2(y[2] - e)

FLeq(x, y) == x = y \/ FLess(x, y)

FZero == <<0, 0>>
FOne == <<1, 0>>

\* ------------------------------------------------------ objects as maps
\* {}: no own property.
EmptyObj == [order |-> <<>>, count |-> [k \in {} |-> 0]]

DIGITS == {"0", "1", "2", "3", "4", "5", "6", "7", "8", "9"}

RECURSIVE DigitsValue(_, _)
DigitsValue(key, acc) ==
  IF key = <<>> THEN acc
  ELSE DigitsValue(Tail(key),
         10 * acc + (CHOOSE d \in 0..9 : ToString(d) = Head(key)))

\* A property key that is a canonical array index ("0", "12", no leading
\* zero): own property keys list these first, in ascending numeric order.
IsArrayIndex(key) ==
  /\ Len(key) \in 1..9
  /\ Range(key) \subseteq DIGITS
  /\ (Len(key) > 1 => key[1] # "0")

\* Position at which a new own property `key` enters the property order.
InsertAt(order, key) ==
  IF IsArrayIndex(key)
    THEN Cardinality({i \in 1..Len(order) :
           IsArrayIndex(order[i]) /\ DigitsValue(order[i], 0) < DigitsValue(key, 0)})
    ELSE Len(order)

\* obj[key] = value
ObjSet(obj, key, value) ==
  IF key \in DOMAIN obj.count
    THEN [obj EXCEPT !.count[key] = value]
    ELSE LET at == InsertAt(obj.order, key)
         IN [order |-> SubSeq(obj.order, 1, at) \o <<key>> \o
                        SubSeq(obj.order, at + 1, Len(obj.order)),
             count |-> obj.count @@ (key :> value)]

\* The names a {} object inherits from Object.prototype: obj[name] reads
\* the inherited member when obj has no own property of that name.
PROTOTYPE_KEYS ==
  { <<"c", "o", "n", "s", "t", "r", "u", "c", "t", "o", "r">>,
    <<"t", "o", "S", "t", "r", "i", "n", "g">>,
    <<"v", "a", "l", "u", "e", "O", "f">>,
    <<"t", "o", "L", "o", "c", "a", "l", "e", "S", "t", "r", "i", "n", "g">>,
    <<"h", "a", "s", "O", "w", "n", "P", "r", "o", "p", "e", "r", "t", "y">>,
    <<"i", "s", "P", "r", "o", "t", "o", "t", "y", "p", "e", "O", "f">>,
    <<"p", "r", "o", "p", "e", "r", "t", "y", "I", "s", "E", "n", "u", "m", "e", "r", "a", "b", "l", "e">>,
    <<"_", "_", "p", "r", "o", "t", "o", "_", "_">> }

\* The inherited accessor: obj.__proto__ = v with v not an object stores
\* nothing.
PROTO_ACCESSOR == <<"_", "_", "p", "r", "o", "t", "o", "_", "_">>

\* Values of a map. A natural number n is the number n. A negative
\* integer is a value that is not a number: INHERITED is the inherited
\* member itself (a function or an object), and INHERITED - k is the text
\* of that member followed by k digits "1".
INHERITED == 0 - 1

IsNumber(value) == value >= 0

\* obj[key] || 0
ObjGet(obj, key) ==
  IF key \in DOMAIN obj.count THEN obj.count[key]
  ELSE IF key \in PROTOTYPE_KEYS THEN INHERITED
  ELSE 0

\* value + 1: addition for a number; for any other value the text of the
\* value with "1" appended.
PlusOne(value) == IF IsNumber(value) THEN value + 1 ELSE value - 1

\* An increment that writes the count back as it was read.
IncrementUncounted(obj, key) == ObjSet(obj, key, ObjGet(obj, key))

\* obj[key] = (obj[key] || 0) + 1
Increment(obj, key) ==
  IF key = PROTO_ACCESSOR THEN obj ELSE ObjSet(obj, key, PlusOne(ObjGet(obj, key)))

\* Increment for keys[lo], ..., keys[hi] in this order. The range is
\* halved, and the first half is evaluated (its size read) before the
\* second is applied, to keep the evaluation shallow.
RECURSIVE IncrementRange(_, _, _, _)
IncrementRange(obj, keys, lo, hi) ==
  IF lo > hi THEN obj
  ELSE IF lo = hi THEN Increment(obj, keys[lo])
  ELSE LET mid == (lo + hi) \div 2
           done == IncrementRange(obj, keys, lo, mid)
       IN IF Len(done.order) > 0
            THEN IncrementRange(done, keys, mid + 1, hi)
            ELSE obj

\* Increment for keys[i], keys[i+1], ... in this order.
IncrementAll(obj, keys, i) == IncrementRange(obj, keys, i, Len(keys))

\* Object.entries(obj) as the sequence of <<key, value>> in property order.
Entries(obj) == [i \in 1..Len(obj.order) |-> <<obj.order[i], obj.count[obj.order[i]]>>]

\* Object.fromEntries(entries): obj[key] = value for entries[lo..hi] in
\* this order. The range is halved, and the first half is evaluated (its
\* size read) before the second is applied, to keep the evaluation shallow.
RECURSIVE FromEntriesFrom(_, _, _, _)
FromEntriesFrom(entries, lo, hi, obj) ==
  IF lo > hi THEN obj
  ELSE IF lo = hi THEN ObjSet(obj, entries[lo][1], entries[lo][2])
  ELSE LET mid == (lo + hi) \div 2
           done == FromEntriesFrom(entries, lo, mid, obj)
       IN IF Len(done.order) > 0
            THEN FromEntriesFrom(entries, mid + 1, hi, done)
            ELSE obj

FromEntries(entries) == FromEntriesFrom(entries, 1, Len(entries), EmptyObj)

SetMax(S) == CHOOSE x \in S : \A y \in S : y <= x

\* entries.sort((a, b) => b[1] - a[1]): by count, descending; entries of
\* equal count keep their order (Array.prototype.sort is stable).
RECURSIVE SortLevels(_, _)
SortLevels(entries, vals) ==
  IF vals = {} THEN <<>>
  ELSE LET mx == SetMax(vals)
       IN SelectSeq(entries, LAMBDA en : en[2] = mx) \o SortLevels(entries, vals \ {mx})

\* (a, b) => b[1] - a[1] as the sort reads it: a result that is not a
\* number (a count is not a number) is taken as 0.
Compare(a, b) == IF IsNumber(a[2]) /\ IsNumber(b[2]) THEN b[2] - a[2] ELSE 0

\* The length of the run the sort finds at the start of the array: up to
\* the first element that breaks it. A descending run (which the sort
\* reverses in place) is strict; an ascending one may hold equal
\* neighbours.
RunLength(arr, descending) ==
  LET breaks == {idx \in 3..Len(arr) :
                   LET order == Compare(arr[idx], arr[idx - 1])
                   IN (descending /\ order >= 0) \/ (~descending /\ order < 0)}
  IN IF breaks = {} THEN Len(arr)
     ELSE (CHOOSE idx \in breaks : \A other \in breaks : idx <= other) - 1

Reverse(seq) == [i \in 1..Len(seq) |-> seq[Len(seq) + 1 - i]]

\* The place a binary search for pivot ends at in arr[left+1 .. right].
RECURSIVE SearchPlace(_, _, _, _)
SearchPlace(arr, pivot, left, right) ==
  IF left >= right THEN left
  ELSE LET mid == left + ((right - left) \div 2)
       IN IF Compare(pivot, arr[mid + 1]) < 0
            THEN SearchPlace(arr, pivot, left, mid)
            ELSE SearchPlace(arr, pivot, mid + 1, right)

\* Binary insertion of arr[start], arr[start+1], ... into the sorted
\* prefix before them.
RECURSIVE BinaryInsertionSort(_, _)
BinaryInsertionSort(arr, start) ==
  IF start > Len(arr) THEN arr
  ELSE LET pivot == arr[start]
           left == SearchPlace(arr, pivot, 0, start - 1)
           moved == SubSeq(arr, 1, left) \o <<pivot>> \o SubSeq(arr, left + 1, start - 1) \o
                      SubSeq(arr, start + 1, Len(arr))
       IN BinaryInsertionSort(moved, start + 1)

\* Array.prototype.sort of Node's engine: the run at the start is found
\* (and reversed when it descends); when it is the whole array the sort
\* is done. Otherwise, in an array of fewer than 64 elements, the other
\* elements are inserted by binary search. For 64 elements and more that
\* are not one run the engine merges runs, which is not modelled here (no
\* specification sorts such an array with a count that is not a number).
EngineSort(arr) ==
  IF Len(arr) < 2 THEN arr
  ELSE LET descending == Compare(arr[2], arr[1]) < 0
           run == RunLength(arr, descending)
           made == IF descending
                     THEN Reverse(SubSeq(arr, 1, run)) \o SubSeq(arr, run + 1, Len(arr))
                     ELSE arr
       IN IF run = Len(arr) THEN made ELSE BinaryInsertionSort(made, run + 1)

\* entries.sort((a, b) => b[1] - a[1]). When every count is a number the
\* comparison is consistent and the result is the stable sort by count
\* descending; when a count is not a number the result is whatever the
\* engine's algorithm leaves.
SortByCountDesc(entries) ==
  IF \A i \in 1..Len(entries) : IsNumber(entries[i][2])
    THEN SortLevels(entries, {entries[i][2] : i \in 1..Len(entries)})
    ELSE EngineSort(entries)

\* A slice that does not truncate.
sliceAll(seq, n) == seq

\* Array.prototype.slice(0, n)
slice(seq, n) == SubSeq(seq, 1, Min(n, Len(seq)))

\* ---------------------------------------------------------- the analyzer
PRUNE_THRESHOLD == 5000
PRUNE_KEEP == 2000
MIN_PHRASE == 3
MAX_PHRASE == 8
MIN_WORD == 2

createEmptyProfile ==
  [ totalMessages   |-> 0,
    wordFrequency   |-> EmptyObj,
    sentenceEnders  |-> EmptyObj,
    fillerWords     |-> EmptyObj,
    firstPerson     |-> EmptyObj,
    averageLength   |-> FZero,
    politenessScore |-> FZero,
    commonPhrases   |-> EmptyObj,
    topicKeywords   |-> EmptyObj,
    responsePatterns |-> EmptyObj,
    lastUpdated     |-> 0 ]

\* lastUpdated: 0 stands for null, a positive number for a timestamp.

\* A count that is one too many for each message.
NextTotalTwice(totalMessages) == totalMessages + 2

\* profile.totalMessages += 1
NextTotal(totalMessages) == totalMessages + 1

\* The running average without the weight of the messages before.
AverageLengthStepUnweighted(averageLength, totalMessages, len) ==
  FDiv(FAdd(averageLength, FInt(len)), FInt(totalMessages))

\* averageLength after one more message of length len (total already
\* incremented).
AverageLengthStep(averageLength, totalMessages, len) ==
  LET prevTotal == FMul(averageLength, FInt(totalMessages - 1))
  IN FDiv(FAdd(prevTotal, FInt(len)), FInt(totalMessages))

\* A match that stops at the first pattern of the list the text contains.
MatchingFirstOnly(list, text) ==
  LET found == SelectSeq(list, LAMBDA pat : includes(text, pat))
  IN IF found = <<>> THEN <<>> ELSE <<found[1]>>

\* A match test with its operands exchanged: the patterns that contain
\* the text.
MatchingReversed(list, text) == SelectSeq(list, LAMBDA pat : includes(pat, text))

\* The patterns of a list that the text contains, in list order.
Matching(list, text) == SelectSeq(list, LAMBDA pat : includes(text, pat))

\* Number of members of a marker list the text contains.
\* A count of every occurrence of every marker, not of the markers that
\* occur.
MarkerCountOccurrences(list, text) ==
  Cardinality({<<k, i>> \in (1..Len(list)) \X (0..Len(text)) :
                 /\ i + Len(list[k]) <= Len(text)
                 /\ substring(text, i, Len(list[k])) = list[k]})

MarkerCount(list, text) == Len(Matching(list, text))

ALPHA == FDiv(FInt(3), FInt(10))

\* A politeness step that treats a marker-free message as a neutral one
\* and so pulls the score toward 0.
PolitenessStepDecay(politenessScore, text) ==
  LET formalCount == MarkerCount(POLITENESS_MARKERS.formal, text)
      casualCount == MarkerCount(POLITENESS_MARKERS.casual, text)
      messageScore == IF formalCount + casualCount > 0
                        THEN FDiv(FInt(formalCount - casualCount),
                                  FInt(formalCount + casualCount))
                        ELSE FZero
  IN FAdd(FMul(ALPHA, messageScore), FMul(FSub(FOne, ALPHA), politenessScore))

\* A politeness step that adds the message score without weighing down
\* the old score.
PolitenessStepUndamped(politenessScore, text) ==
  LET formalCount == MarkerCount(POLITENESS_MARKERS.formal, text)
      casualCount == MarkerCount(POLITENESS_MARKERS.casual, text)
  IN IF formalCount + casualCount > 0
       THEN FAdd(FMul(ALPHA, FDiv(FInt(formalCount - casualCount),
                                  FInt(formalCount + casualCount))),
                 politenessScore)
       ELSE politenessScore

PolitenessStep(politenessScore, text) ==
  LET formalCount == MarkerCount(POLITENESS_MARKERS.formal, text)
      casualCount == MarkerCount(POLITENESS_MARKERS.casual, text)
  IN IF formalCount + casualCount > 0
       THEN LET messageScore == FDiv(FInt(formalCount - casualCount),
                                     FInt(formalCount + casualCount))
            IN FAdd(FMul(ALPHA, messageScore),
                    FMul(FSub(FOne, ALPHA), politenessScore))
       ELSE politenessScore

\* The substrings the phrase loop visits, in loop order (len outer, start
\* inner), without those made of separators only.
RECURSIVE PhrasesFrom(_, _, _, _)
PhrasesFrom(text, len, i, acc) ==
  IF len > Min(MAX_PHRASE, Len(text)) THEN acc
  ELSE LET starts == Len(text) - len - i + 1
           phrases == [k \in 1..starts |-> substring(text, i + k - 1, len)]
       IN PhrasesFrom(text, len + 1, 0,
            acc \o SelectSeq(phrases, LAMBDA phrase : ~IsSeparatorOnly(phrase)))

Phrases(text) == PhrasesFrom(text, MIN_PHRASE, 0, <<>>)

MinePhrases(commonPhrases, text) == IncrementAll(commonPhrases, Phrases(text), 1)

\* Pruning that waits for PRUNE_KEEP entries more than the threshold.
PrunePhrasesLate(commonPhrases) ==
  LET phraseEntries == Entries(commonPhrases)
  IN IF Len(phraseEntries) > PRUNE_THRESHOLD + PRUNE_KEEP
       THEN FromEntries(slice(SortByCountDesc(phraseEntries), PRUNE_KEEP))
       ELSE commonPhrases

\* Pruning that keeps the oldest entries instead of the most frequent.
PrunePhrasesUnsorted(commonPhrases) ==
  LET phraseEntries == Entries(commonPhrases)
  IN IF Len(phraseEntries) > PRUNE_THRESHOLD
       THEN FromEntries(slice(phraseEntries, PRUNE_KEEP))
       ELSE commonPhrases

PrunePhrases(commonPhrases) ==
  LET phraseEntries == Entries(commonPhrases)
  IN IF Len(phraseEntries) > PRUNE_THRESHOLD
       THEN FromEntries(slice(SortByCountDesc(phraseEntries), PRUNE_KEEP))
       ELSE commonPhrases

analyzeMessage(text, profile, now) ==
  LET total == NextTotal(profile.totalMessages)
      words == SelectSeq(tokenize(text), LAMBDA w : Len(w) >= MIN_WORD)
  IN [ profile EXCEPT
         !.totalMessages = total,
         !.averageLength = AverageLengthStep(profile.averageLength, total, Len(text)),
         !.wordFrequency = IncrementAll(@, words, 1),
         !.sentenceEnders = IncrementAll(@, Matching(JAPANESE_SENTENCE_ENDERS, text), 1),
         !.fillerWords = IncrementAll(@, Matching(FILLER_WORDS, text), 1),
         !.firstPerson = IncrementAll(@, Matching(FIRST_PERSON_PRONOUNS, text), 1),
         !.politenessScore = PolitenessStep(@, text),
         !.commonPhrases = PrunePhrases(MinePhrases(@, text)),
         !.lastUpdated = now ]

\* The error analyzeMessage throws on a profile that lacks a map it uses,
\* "" when it returns: a count is read from undefined in the loops over
\* words, enders, fillers, pronouns and phrases, and Object.entries is
\* called on commonPhrases for every message.
analyzeMessageError(text, profile) ==
  LET lacks(f) == f \notin DOMAIN profile
      words == SelectSeq(tokenize(text), LAMBDA w : Len(w) >= MIN_WORD)
  IN IF \/ lacks("wordFrequency") /\ words # <<>>
        \/ lacks("sentenceEnders") /\ Matching(JAPANESE_SENTENCE_ENDERS, text) # <<>>
        \/ lacks("fillerWords") /\ Matching(FILLER_WORDS, text) # <<>>
        \/ lacks("firstPerson") /\ Matching(FIRST_PERSON_PRONOUNS, text) # <<>>
        \/ lacks("commonPhrases")
       THEN "TypeError" ELSE ""

\* ------------------------------------------------------------ settings
\* RELATIONSHIP_OPTIONS: id and label of every selectable relationship.
RELATIONSHIP_OPTIONS ==
  << [id |-> "friend", label |-> "yuujin"],
     [id |-> "senior", label |-> "senpai"],
     [id |-> "junior", label |-> "kouhai"],
     [id |-> "boss", label |-> "joushi"],
     [id |-> "subordinate", label |-> "buka"],
     [id |-> "teacher", label |-> "sensei"],
     [id |-> "partner", label |-> "koibito"],
     [id |-> "family", label |-> "kazoku"] >>

RelationshipIds == {RELATIONSHIP_OPTIONS[i].id : i \in 1..Len(RELATIONSHIP_OPTIONS)}

DEFAULT_SETTINGS == [relationship |-> "friend"]

\* A file is <<>> when it does not exist and <<content>> when it does.
NoFile == <<>>

\* Content of a file that JSON.parse rejects (cut short, overwritten).
NotJSON == [notJSON |-> TRUE]

IsJSON(doc) == "notJSON" \notin DOMAIN doc

\* loadSettings: the defaults overlaid by the settings file; the defaults
\* alone when the file is missing or reading it throws (the catch logs the
\* error and goes on).
loadSettings(sfile) ==
  IF sfile = NoFile \/ ~IsJSON(sfile[1]) THEN DEFAULT_SETTINGS ELSE sfile[1]

\* The error loadSettings caught and logged, "" when there was none.
loadSettingsCaught(sfile) ==
  IF sfile # NoFile /\ ~IsJSON(sfile[1]) THEN "SyntaxError" ELSE ""

\* settings.getRelationship
getRelationship(sfile) == loadSettings(sfile).relationship

\* saveSettings({relationship}) as called by setRelationship.
setRelationship(sfile, relationship) ==
  << [loadSettings(sfile) EXCEPT !.relationship = relationship] >>

\* -------------------------------------------------------- profile store
\* JSON.stringify(profile): every map becomes the list of its members in
\* property order; numbers and the timestamp are written as they are.
JSONstringify(profile) ==
  [ profile EXCEPT
      !.wordFrequency = Entries(@),
      !.sentenceEnders = Entries(@),
      !.fillerWords = Entries(@),
      !.firstPerson = Entries(@),
      !.commonPhrases = Entries(@),
      !.topicKeywords = Entries(@),
      !.responsePatterns = Entries(@) ]

\* The fields of a profile that hold maps.
MAP_FIELDS ==
  { "wordFrequency", "sentenceEnders", "fillerWords", "firstPerson",
    "commonPhrases", "topicKeywords", "responsePatterns" }

\* JSON.parse(document) of a document that is JSON: every member list is
\* read back into an object, member by member; whatever fields the
\* document has are returned, nothing is checked or filled in.
JSONparse(doc) ==
  [ f \in DOMAIN doc |-> IF f \in MAP_FIELDS THEN FromEntries(doc[f]) ELSE doc[f] ]

\* A document that is JSON but not a profile: {"totalMessages": 3}.
PartialDoc == [totalMessages |-> 3]

\* The document has the fields of a StyleProfile.
IsStyleProfile(doc) == IsJSON(doc) /\ DOMAIN doc = DOMAIN createEmptyProfile

\* One profile file for every relationship.
getProfileFileShared(relationship, sfile) == DEFAULT_SETTINGS.relationship

\* getProfileFile: the profile file is named by the relationship; "" stands
\* for a missing argument.
getProfileFile(relationship, sfile) ==
  IF relationship = "" THEN getRelationship(sfile) ELSE relationship

\* The error loadProfile throws, "" when it returns: JSON.parse throws on
\* a file that is not JSON, and nothing else is checked.
loadProfileError(files, relationship, sfile) ==
  LET file == getProfileFile(relationship, sfile)
  IN IF files[file] # NoFile /\ ~IsJSON(files[file][1]) THEN "SyntaxError" ELSE ""

\* A load that falls back to the default relationship's profile.
loadProfileFallback(files, relationship, sfile) ==
  LET file == getProfileFile(relationship, sfile)
      other == DEFAULT_SETTINGS.relationship
  IN IF files[file] # NoFile THEN JSONparse(files[file][1])
     ELSE IF files[other] # NoFile THEN JSONparse(files[other][1])
     ELSE createEmptyProfile

\* What loadProfile returns when it returns.
loadProfile(files, relationship, sfile) ==
  LET file == getProfileFile(relationship, sfile)
  IN IF files[file] = NoFile THEN createEmptyProfile ELSE JSONparse(files[file][1])

\* A save that leaves an existing profile document in place.
saveProfileKeeping(files, profile, relationship, sfile) ==
  LET file == getProfileFile(relationship, sfile)
  IN IF files[file] # NoFile /\ IsStyleProfile(files[file][1]) THEN files
     ELSE [files EXCEPT ![file] = <<JSONstringify(profile)>>]

saveProfile(files, profile, relationship, sfile) ==
  LET file == getProfileFile(relationship, sfile)
  IN [files EXCEPT ![file] = <<JSONstringify(profile)>>]

\* ------------------------------------------------------ conversation log
\* The sessions of conversations.json in the order Object.values lists
\* them; each is [id, messages].
SessionIndex(sessions, sessionId) ==
  CHOOSE i \in 0..Len(sessions) :
    IF \E j \in 1..Len(sessions) : sessions[j].id = sessionId
      THEN i > 0 /\ sessions[i].id = sessionId
      ELSE i = 0

\* addMessage(sessionId, role, text, meta): meta.relationship is the tag
\* the simulation route passes, "none" when the caller passes no meta.
addMessage(sessions, sessionId, role, text, relationship, now) ==
  LET message == [role |-> role, text |-> text, timestamp |-> now,
                  relationship |-> relationship]
      at == SessionIndex(sessions, sessionId)
  IN IF at = 0
       THEN Append(sessions, [id |-> sessionId, messages |-> <<message>>])
       ELSE [sessions EXCEPT ![at].messages = Append(@, message)]

RECURSIVE getAllMessagesFrom(_, _)
getAllMessagesFrom(sessions, i) ==
  IF i > Len(sessions) THEN <<>>
  ELSE sessions[i].messages \o getAllMessagesFrom(sessions, i + 1)

\* getAllMessages: the messages of every session, session after session.
getAllMessages(sessions) == getAllMessagesFrom(sessions, 1)

getUserMessages(sessions) ==
  SelectSeq(getAllMessages(sessions), LAMBDA m : m.role = "user")

\* The message-history provider of rebuild: the user messages recorded for
\* the key.
getUserMessagesByRelationship(sessions, relationship) ==
  SelectSeq(getUserMessages(sessions), LAMBDA m : m.relationship = relationship)

\* --------------------------------------------------- update and rebuild
\* A replay that stamps the profile also when there is nothing to replay.
RECURSIVE AnalyzeAllStamping(_, _, _, _)
AnalyzeAllStamping(msgs, i, profile, now) ==
  IF i > Len(msgs) THEN [profile EXCEPT !.lastUpdated = now]
  ELSE AnalyzeAllStamping(msgs, i + 1, analyzeMessage(msgs[i].text, profile, now), now)

RECURSIVE AnalyzeAll(_, _, _, _)
AnalyzeAll(msgs, i, profile, now) ==
  IF i > Len(msgs) THEN profile
  ELSE AnalyzeAll(msgs, i + 1, analyzeMessage(msgs[i].text, profile, now), now)

\* A rebuild that leaves out the oldest message of the history.
rebuildProfileFromSecond(sessions, sfile, now) ==
  LET relationship == getRelationship(sfile)
      userMessages == getUserMessagesByRelationship(sessions, relationship)
  IN AnalyzeAll(userMessages, 2, createEmptyProfile, now)

\* An update that analyzes into a fresh profile instead of the stored one.
updateProfileNoLoad(files, sfile, text, now) ==
  analyzeMessage(text, createEmptyProfile, now)

\* The profile rebuildProfile builds and saves.
rebuildProfile(sessions, sfile, now) ==
  LET relationship == getRelationship(sfile)
      userMessages == getUserMessagesByRelationship(sessions, relationship)
  IN AnalyzeAll(userMessages, 1, createEmptyProfile, now)

\* The error updateProfile throws before it saves anything, "" when it
\* returns: whatever loadProfile or analyzeMessage throws.
updateProfileError(files, sfile, text) ==
  LET relationship == getRelationship(sfile)
      loadError == loadProfileError(files, relationship, sfile)
  IN IF loadError # "" THEN loadError
     ELSE analyzeMessageError(text, loadProfile(files, relationship, sfile))

\* The profile updateProfile computes and saves.
updateProfile(files, sfile, text, now) ==
  LET relationship == getRelationship(sfile)
  IN analyzeMessage(text, loadProfile(files, relationship, sfile), now)

\* ------------------------------------------------------------- summary
\* The first n entries in property order, not sorted.
getTopItemsUnsorted(obj, n) ==
  LET top == slice(Entries(obj), n)
  IN [i \in 1..Len(top) |-> [text |-> top[i][1], count |-> top[i][2]]]

\* getTopItems(obj, n)
getTopItems(obj, n) ==
  LET top == slice(SortByCountDesc(Entries(obj)), n)
  IN [i \in 1..Len(top) |-> [text |-> top[i][1], count |-> top[i][2]]]

\* Math.round of a floating-point value: floor(x + 1/2).
MathRound(x) ==
  IF x[2] >= 0 THEN x[1] * Pow2(x[2])
  ELSE (x[1] + Pow2((0 - x[2]) - 1)) \div Pow2(0 - x[2])

\* The literal 0.3 of the label thresholds.
LABEL_THRESHOLD == FDiv(FInt(3), FInt(10))

\* Labels that take the thresholds themselves as polite and casual.
politenessLabelInclusive(politenessScore) ==
  IF FLeq(LABEL_THRESHOLD, politenessScore) THEN "teinei"
  ELSE IF FLeq(politenessScore, <<0 - LABEL_THRESHOLD[1], LABEL_THRESHOLD[2]>>)
    THEN "kajuaru"
  ELSE "futsuu"

politenessLabel(politenessScore) ==
  IF FLess(LABEL_THRESHOLD, politenessScore) THEN "teinei"
  ELSE IF FLess(politenessScore, <<0 - LABEL_THRESHOLD[1], LABEL_THRESHOLD[2]>>)
    THEN "kajuaru"
  ELSE "futsuu"

TOP_WORDS == 15
TOP_ENDERS == 10
TOP_FILLERS == 10
TOP_FIRST_PERSON == 5
TOP_PHRASES == 15
MIN_PHRASE_COUNT == 2

\* The error getProfileSummary throws, "" when it returns: whatever
\* loadProfile throws, and Object.entries of a map the profile lacks.
getProfileSummaryError(files, sfile) ==
  LET relationship == getRelationship(sfile)
      loadError == loadProfileError(files, relationship, sfile)
      profile == loadProfile(files, relationship, sfile)
  IN IF loadError # "" THEN loadError
     ELSE IF { "wordFrequency", "sentenceEnders", "fillerWords", "firstPerson",
               "commonPhrases" } \subseteq DOMAIN profile
       THEN "" ELSE "TypeError"

getProfileSummary(files, sfile) ==
  LET relationship == getRelationship(sfile)
      profile == loadProfile(files, relationship, sfile)
      found == {i \in 1..Len(RELATIONSHIP_OPTIONS) :
                  RELATIONSHIP_OPTIONS[i].id = relationship}
  IN [ relationship |-> relationship,
       relationshipLabel |->
         IF found # {} THEN RELATIONSHIP_OPTIONS[CHOOSE i \in found : TRUE].label
         ELSE relationship,
       totalMessages |-> profile.totalMessages,
       averageLength |-> MathRound(profile.averageLength),
       politenessScore |-> profile.politenessScore,
       politenessLabel |-> politenessLabel(profile.politenessScore),
       topWords |-> getTopItems(profile.wordFrequency, TOP_WORDS),
       topSentenceEnders |-> getTopItems(profile.sentenceEnders, TOP_ENDERS),
       topFillerWords |-> getTopItems(profile.fillerWords, TOP_FILLERS),
       firstPersonUsage |-> getTopItems(profile.firstPerson, TOP_FIRST_PERSON),
       topPhrases |->
         SelectSeq(getTopItems(profile.commonPhrases, TOP_PHRASES),
                   LAMBDA p : p.count >= MIN_PHRASE_COUNT /\ Len(p.text) >= MIN_PHRASE),
       lastUpdated |-> profile.lastUpdated ]

\* ---------------------------------------------------------------- state
VARIABLES
  files,      \* data/profiles/<relationship>.json, per relationship id
  sfile,      \* data/settings.json
  sessions,   \* data/conversations.json
  now,        \* the clock: one tick per handled request
  lastOp,     \* the request handled last and what it answered
  inflight,   \* requests received and not yet handled
  overlaps,   \* handlers run while another profile request was in flight
  hist,       \* history variables of the claims (see HistInit)
  wp,         \* analyzer specification: the working profile
  wfed,       \* analyzer specification: the texts analyzed so far
  score,      \* politeness specification: the running score
  scoreText,  \* politeness specification: the text scored last
  cp,         \* phrase specification: the commonPhrases map
  cpMined,    \* phrase specification: the map after mining, before pruning
  cpFed       \* phrase specification: the texts mined so far

sysVars == <<files, sfile, sessions, now, lastOp, inflight, overlaps, hist>>
anaVars == <<wp, wfed>>
scoVars == <<score, scoreText>>
phrVars == <<cp, cpMined, cpFed>>
vars == <<sysVars, anaVars, scoVars, phrVars>>

\* ------------------------------------------------------------- inputs
\* Message texts of the system specification:
\*   TextFormal  "desuyo."     one formal marker, length 4
\*   TextCasual  "soudana"     one casual marker, a filler, length 4
\*   TextPlain   "ore un"      a pronoun, no politeness marker, length 4
TextFormal == <<"de", "su", "yo", "KUTEN">>
TextCasual == <<"so", "u", "da", "na">>
TextPlain == <<"K_ore", " ", "u", "n">>
Texts == {TextFormal, TextCasual, TextPlain}

\* The relationships the client switches between.
Keys == {"friend", "senior"}

SessionIds == {"s1"}

\* Text of an assistant reply (the generator's wording is not modelled).
ReplyText == <<"ha", "i">>

\* What generateSimulationReply resolves to: a text, or null (<<>>).
SimulationReplies == {ReplyText, <<>>}

\* The request handled last: what it was, what it answered (summary,
\* profile, reply), the error it ended with, the error that was caught
\* and passed over while it ran ("" for none), and the message list it
\* sent to the language model (<<>> when it sent none).
NoOp ==
  [ op |-> "none", key |-> "", text |-> <<>>, summary |-> <<>>, profile |-> <<>>,
    reply |-> <<>>, error |-> "", swallowed |-> "", sent |-> <<>> ]

\* History variables:
\*   fed[k]       the texts analyzed into the profile now stored for k
\*   seen[k]      the texts submitted while k was the active relationship
\*   updates[k]   updateProfile calls made under k
\*   rebuilds[k]  rebuildProfile calls made under k
\*   rebuildLog[k]  one record per rebuildProfile call made under k: the
\*                  texts replayed, the file before, the profile returned
\*                  and the profile found in the file afterwards
\*   prevSummary, lastSummary   the results of the last two summaries
\*   updSince, chgSince         since the last summary: an updateProfile ran;
\*                              an update, rebuild or relationship switch ran
\*   updBetween, chgBetween     the same, between the last two summaries
HistInit ==
  [ fed |-> [k \in RelationshipIds |-> <<>>],
    seen |-> [k \in RelationshipIds |-> {}],
    updates |-> [k \in RelationshipIds |-> 0],
    rebuilds |-> [k \in RelationshipIds |-> 0],
    rebuildLog |-> [k \in RelationshipIds |-> <<>>],
    prevSummary |-> <<>>, lastSummary |-> <<>>,
    updSince |-> FALSE, chgSince |-> FALSE,
    updBetween |-> FALSE, chgBetween |-> FALSE ]

SysInit ==
  /\ files = [k \in RelationshipIds |-> NoFile]
  /\ sfile = NoFile
  /\ sessions = <<>>
  /\ now = 0
  /\ lastOp = NoOp
  /\ inflight = {}
  /\ overlaps = 0
  /\ hist = HistInit

AnaIdle == wp = createEmptyProfile /\ wfed = <<>>
ScoIdle == score = FZero /\ scoreText = <<>>
PhrIdle == cp = EmptyObj /\ cpMined = EmptyObj /\ cpFed = <<>>

\* hist after a summary was computed.
HistSummary(h, summary) ==
  [ h EXCEPT !.prevSummary = h.lastSummary, !.lastSummary = <<summary>>,
             !.updBetween = h.updSince, !.chgBetween = h.chgSince,
             !.updSince = FALSE, !.chgSince = FALSE ]

\* --------------------------------------------------------------- routes
\* POST /api/chat/message: save the user message, update the profile,
\* generate the response, save the assistant message.
\* An error updateProfile throws leaves the handler at that call: the user
\* message is saved, nothing else is, and the request is answered with the
\* error. sent is the message list the generator sends to the language
\* model while it generates the response.
DoMessageSending(sessionId, text, sent) ==
  LET t == now + 1
      rel == getRelationship(sfile)
      s1 == addMessage(sessions, sessionId, "user", text, "none", t)
      error == updateProfileError(files, sfile, text)
      profile == updateProfile(files, sfile, text, t)
      s2 == addMessage(s1, sessionId, "assistant", ReplyText, "none", t)
  IN /\ text # <<>>
     /\ now' = t
     /\ IF error = ""
          THEN /\ files' = saveProfile(files, profile, rel, sfile)
               /\ sessions' = s2
               /\ lastOp' = [NoOp EXCEPT !.op = "message", !.key = rel, !.text = text,
                                         !.profile = <<profile>>,
                                         !.reply = <<ReplyText>>,
                                         !.swallowed = loadSettingsCaught(sfile),
                                         !.sent = sent]
               /\ hist' = [hist EXCEPT !.fed[rel] = Append(@, text),
                                       !.seen[rel] = @ \cup {text},
                                       !.updates[rel] = @ + 1,
                                       !.updSince = TRUE, !.chgSince = TRUE]
          ELSE /\ files' = files
               /\ sessions' = s1
               /\ lastOp' = [NoOp EXCEPT !.op = "message", !.key = rel, !.text = text,
                                         !.error = error,
                                         !.swallowed = loadSettingsCaught(sfile)]
               /\ hist' = [hist EXCEPT !.seen[rel] = @ \cup {text}]
     /\ UNCHANGED sfile

\* POST /api/chat/message with no API key configured: the generator
\* sends nothing and answers from its fallback.
DoMessage(sessionId, text) == DoMessageSending(sessionId, text, <<>>)

\* POST /api/simulation/reply up to its first await: save the user
\* message tagged with the current relationship.
ReplyStart(ss, sessionId, text, t) ==
  addMessage(ss, sessionId, "user", text, getRelationship(sfile), t)

\* POST /api/simulation/reply after the await: save the reply, unless the
\* generator resolved to null (answered with status 500).
ReplyEnd(ss, sessionId, replyText, t) ==
  IF replyText = <<>> THEN ss
  ELSE addMessage(ss, sessionId, "assistant", replyText, "none", t)

\* POST /api/simulation/reply with no other request handled during its
\* await.
DoReply(sessionId, text) ==
  LET t == now + 1
      rel == getRelationship(sfile)
  IN /\ text # <<>>
     /\ \E replyText \in SimulationReplies :
          sessions' = ReplyEnd(ReplyStart(sessions, sessionId, text, t),
                               sessionId, replyText, t)
     /\ now' = t
     /\ lastOp' = [NoOp EXCEPT !.op = "reply", !.key = rel, !.text = text]
     /\ hist' = [hist EXCEPT !.seen[rel] = @ \cup {text}]
     /\ UNCHANGED <<files, sfile>>

\* The texts of a list of messages.
TextsOfHistory(msgs) == [i \in 1..Len(msgs) |-> msgs[i].text]

\* A rebuild route that replays the history on top of the stored profile.
DoRebuildOntoStored ==
  LET t == now + 1
      rel == getRelationship(sfile)
      userMessages == getUserMessagesByRelationship(sessions, rel)
      profile == AnalyzeAll(userMessages, 1, loadProfile(files, rel, sfile), t)
      saved == saveProfile(files, profile, rel, sfile)
      summary == getProfileSummary(saved, sfile)
  IN /\ files' = saved
     /\ now' = t
     /\ lastOp' = [NoOp EXCEPT !.op = "rebuild", !.key = rel,
                               !.summary = <<summary>>, !.profile = <<profile>>,
                               !.swallowed = loadSettingsCaught(sfile)]
     /\ hist' = HistSummary(
                  [hist EXCEPT
                     !.fed[rel] = TextsOfHistory(userMessages),
                     !.rebuilds[rel] = @ + 1,
                     !.rebuildLog[rel] =
                        Append(@, [texts |-> TextsOfHistory(userMessages),
                                   before |-> files[getProfileFile(rel, sfile)],
                                   returned |-> profile,
                                   stored |-> loadProfile(saved, rel, sfile)]),
                     !.chgSince = TRUE],
                  summary)
     /\ UNCHANGED <<sfile, sessions>>

\* POST /api/learning/rebuild: rebuildProfile, then getProfileSummary.
DoRebuild ==
  LET t == now + 1
      rel == getRelationship(sfile)
      profile == rebuildProfile(sessions, sfile, t)
      saved == saveProfile(files, profile, rel, sfile)
      summary == getProfileSummary(saved, sfile)
      userMessages == getUserMessagesByRelationship(sessions, rel)
  IN /\ files' = saved
     /\ now' = t
     /\ lastOp' = [NoOp EXCEPT !.op = "rebuild", !.key = rel,
                               !.summary = <<summary>>, !.profile = <<profile>>,
                               !.swallowed = loadSettingsCaught(sfile)]
     /\ hist' = HistSummary(
                  [hist EXCEPT
                     !.fed[rel] = TextsOfHistory(userMessages),
                     !.rebuilds[rel] = @ + 1,
                     !.rebuildLog[rel] =
                        Append(@, [texts |-> TextsOfHistory(userMessages),
                                   before |-> files[getProfileFile(rel, sfile)],
                                   returned |-> profile,
                                   stored |-> loadProfile(saved, rel, sfile)]),
                     !.chgSince = TRUE],
                  summary)
     /\ UNCHANGED <<sfile, sessions>>

\* A summary route that stamps and rewrites the profile it read.
DoProfileTouching ==
  LET summary == getProfileSummary(files, sfile)
      rel == getRelationship(sfile)
      profile == [loadProfile(files, rel, sfile) EXCEPT !.lastUpdated = now + 1]
  IN /\ now' = now + 1
     /\ files' = saveProfile(files, profile, rel, sfile)
     /\ lastOp' = [NoOp EXCEPT !.op = "profile", !.key = rel,
                               !.summary = <<summary>>]
     /\ hist' = HistSummary(hist, summary)
     /\ UNCHANGED <<sfile, sessions>>

\* GET /api/learning/profile; an error getProfileSummary throws is the
\* answer.
DoProfile ==
  LET summary == getProfileSummary(files, sfile)
      error == getProfileSummaryError(files, sfile)
  IN /\ now' = now + 1
     /\ IF error = ""
          THEN /\ lastOp' = [NoOp EXCEPT !.op = "profile",
                                         !.key = getRelationship(sfile),
                                         !.summary = <<summary>>,
                                         !.swallowed = loadSettingsCaught(sfile)]
               /\ hist' = HistSummary(hist, summary)
          ELSE /\ lastOp' = [NoOp EXCEPT !.op = "profile",
                                         !.key = getRelationship(sfile),
                                         !.error = error,
                                         !.swallowed = loadSettingsCaught(sfile)]
               /\ hist' = hist
     /\ UNCHANGED <<files, sfile, sessions>>

\* PUT /api/settings/relationship
DoRelationship(relationship) ==
  /\ relationship \in RelationshipIds
  /\ sfile' = setRelationship(sfile, relationship)
  /\ now' = now + 1
  /\ lastOp' = [NoOp EXCEPT !.op = "relationship", !.key = relationship]
  /\ hist' = [hist EXCEPT !.chgSince = TRUE]
  /\ UNCHANGED <<files, sessions>>

\* What a step of the system specification leaves alone.
SysFrame == UNCHANGED <<inflight, overlaps, anaVars, scoVars, phrVars>>

PostMessage ==
  /\ now < MaxOps
  /\ \E sessionId \in SessionIds, text \in Texts : DoMessage(sessionId, text)
  /\ SysFrame

PostReply ==
  /\ now < MaxOps
  /\ \E sessionId \in SessionIds, text \in Texts : DoReply(sessionId, text)
  /\ SysFrame

PostRebuild == now < MaxOps /\ DoRebuild /\ SysFrame

GetProfile == now < MaxOps /\ DoProfile /\ SysFrame

PutRelationship ==
  /\ now < MaxOps
  /\ \E relationship \in Keys : DoRelationship(relationship)
  /\ SysFrame

Init == SysInit /\ AnaIdle /\ ScoIdle /\ PhrIdle

Next == PostMessage \/ PostReply \/ PostRebuild \/ GetProfile \/ PutRelationship

Spec == Init /\ [][Next]_vars

\* ------------------------------------------------- damaged data files
\* The requests of the system specification, with data files that get
\* damaged between requests: a profile file is cut short (no longer JSON)
\* or replaced by JSON that is not a profile, the settings file is cut
\* short.
CorruptDocs == {NotJSON, PartialDoc}

CorruptProfileFile ==
  /\ now < MaxOps
  /\ \E k \in Keys, doc \in CorruptDocs : files' = [files EXCEPT ![k] = <<doc>>]
  /\ now' = now + 1
  /\ lastOp' = [NoOp EXCEPT !.op = "damage"]
  /\ UNCHANGED <<sfile, sessions, hist>>
  /\ SysFrame

CorruptSettingsFile ==
  /\ now < MaxOps
  /\ sfile' = <<NotJSON>>
  /\ now' = now + 1
  /\ lastOp' = [NoOp EXCEPT !.op = "damage"]
  /\ UNCHANGED <<files, sessions, hist>>
  /\ SysFrame

NextFaults ==
  \/ PostMessage \/ PostRebuild \/ GetProfile \/ PutRelationship
  \/ CorruptProfileFile \/ CorruptSettingsFile

SpecFaults == Init /\ [][NextFaults]_vars

\* ------------------------------------------- several sessions at a time
\* Conversations kept in two sessions that take turns, and rebuilds over
\* what they recorded.
HistorySessionIds == {"s1", "s2"}
HistoryTexts == {TextCasual, TextPlain}

PostReplyIn ==
  /\ now < MaxHistoryOps
  /\ \E sessionId \in HistorySessionIds, text \in HistoryTexts : DoReply(sessionId, text)
  /\ SysFrame

RebuildHistory == now < MaxHistoryOps /\ DoRebuild /\ SysFrame

NextHistory == PostReplyIn \/ RebuildHistory

SpecHistory == Init /\ [][NextHistory]_vars

\* --------------------------------------------- concurrent requests
\* Requests reach the server at any time and wait in the event loop; a
\* handler runs from its first statement to its next await, or to its last
\* statement, before another one runs. The message and rebuild handlers
\* await nothing (every call they make is synchronous); the simulation
\* reply handler awaits the generator after it saved the user message.
Requests ==
  [op : {"message"}, sessionId : SessionIds, text : {TextFormal, TextCasual}]
    \cup [op : {"reply"}, sessionId : SessionIds, text : {TextPlain}]
    \cup {[op |-> "rebuild", sessionId |-> "", text |-> <<>>]}

\* A reply request suspended at its await.
Awaiting(req) == [req EXCEPT !.op = "awaiting"]

ConFrame == UNCHANGED <<anaVars, scoVars, phrVars>>

Receive ==
  /\ now + Cardinality(inflight) < MaxServed
  /\ Cardinality(inflight) < MaxInflight
  /\ \E req \in Requests \ inflight : inflight' = inflight \cup {req}
  /\ UNCHANGED <<files, sfile, sessions, now, lastOp, overlaps, hist>>
  /\ ConFrame

\* inflight and overlaps after req was handled.
Served(req) ==
  /\ inflight' = inflight \ {req}
  /\ overlaps' = IF \E other \in inflight \ {req} : other.op \in {"message", "rebuild"}
                   THEN overlaps + 1 ELSE overlaps

ServeMessage ==
  /\ \E req \in inflight :
       /\ req.op = "message"
       /\ DoMessage(req.sessionId, req.text)
       /\ Served(req)
  /\ ConFrame

ServeReply ==
  /\ \E req \in inflight :
       LET rel == getRelationship(sfile)
       IN /\ req.op = "reply"
          /\ sessions' = ReplyStart(sessions, req.sessionId, req.text, now + 1)
          /\ now' = now + 1
          /\ lastOp' = [NoOp EXCEPT !.op = "reply", !.key = rel, !.text = req.text]
          /\ hist' = [hist EXCEPT !.seen[rel] = @ \cup {req.text}]
          /\ inflight' = (inflight \ {req}) \cup {Awaiting(req)}
  /\ UNCHANGED <<files, sfile, overlaps>>
  /\ ConFrame

ResumeReply ==
  /\ \E req \in inflight, replyText \in SimulationReplies :
       /\ req.op = "awaiting"
       /\ sessions' = ReplyEnd(sessions, req.sessionId, replyText, now)
       /\ Served(req)
  /\ UNCHANGED <<files, sfile, now, lastOp, hist>>
  /\ ConFrame

ServeRebuild ==
  /\ \E req \in inflight :
       /\ req.op = "rebuild"
       /\ DoRebuild
       /\ Served(req)
  /\ ConFrame

NextConcurrent ==
  Receive \/ ServeMessage \/ ServeReply \/ ResumeReply \/ ServeRebuild

SpecConcurrent == Init /\ [][NextConcurrent]_vars

\* ------------------------------------------------- reading the state
\* The profile a load of k's file returns.
StoredProfile(fs, k) == IF fs[k] = NoFile THEN createEmptyProfile ELSE JSONparse(fs[k][1])

TotalIn(fs, k) == IF fs[k] = NoFile THEN 0 ELSE fs[k][1].totalMessages
Total(k) == TotalIn(files, k)

ScoreIn(fs, k) == IF fs[k] = NoFile THEN FZero ELSE fs[k][1].politenessScore
Score(k) == ScoreIn(files, k)

\* Equality of two profiles in every field other than lastUpdated.
SameButTime(p, q) == [p EXCEPT !.lastUpdated = 0] = [q EXCEPT !.lastUpdated = 0]

TextsOf(msgs) == [i \in 1..Len(msgs) |-> msgs[i].text]

\* The profile files after updateProfile was called once per text, in
\* order, with k the active relationship.
RECURSIVE UpdateEach(_, _, _, _)
UpdateEach(fs, k, texts, i) ==
  IF i > Len(texts) THEN fs
  ELSE LET sf == <<[relationship |-> k]>>
       IN UpdateEach(saveProfile(fs, updateProfile(fs, sf, texts[i], i), k, sf),
                     k, texts, i + 1)

NoFiles == [k \in RelationshipIds |-> NoFile]

\* The in-memory fold of the analyzer over texts, from the empty profile.
RECURSIVE Fold(_, _, _)
Fold(texts, i, profile) ==
  IF i > Len(texts) THEN profile
  ELSE Fold(texts, i + 1, analyzeMessage(texts[i], profile, i))

\* ------------------------------------------------------------- claims
\* C1. Rebuild equivalence: right after rebuildProfile ran over the history
\* M of the active key, the profile it stored and the profile it returned
\* equal, in every field other than lastUpdated, the profile obtained from
\* no stored profile by one updateProfile call per message of M, in order.
C1_RebuildEquivalence ==
  lastOp.op = "rebuild" =>
    LET k == lastOp.key
        M == TextsOf(getUserMessagesByRelationship(sessions, k))
        viaUpdates == StoredProfile(UpdateEach(NoFiles, k, M, 1), k)
    IN /\ SameButTime(StoredProfile(files, k), viaUpdates)
       /\ SameButTime(lastOp.profile[1], viaUpdates)

\* A rebuild over a non-empty history replaced a profile built by updates.
C1_Witness ==
  /\ lastOp.op = "rebuild"
  /\ Len(getUserMessagesByRelationship(sessions, lastOp.key)) >= 1
  /\ hist.updates[lastOp.key] >= 1

\* C3. totalMessages of a key rises by exactly 1 on every analyzed message,
\* falls only in a rebuild of that key, which sets it to the number of
\* messages replayed from 0, and equals the number of updateProfile calls
\* as long as the key was never rebuilt.
C3_CountStep ==
  \A k \in RelationshipIds :
    /\ (now' # now /\ lastOp'.op = "message" /\ lastOp'.key = k)
         => TotalIn(files', k) = Total(k) + 1
    /\ TotalIn(files', k) < Total(k)
         => (lastOp'.op = "rebuild" /\ lastOp'.key = k)
    /\ (now' # now /\ lastOp'.op = "rebuild" /\ lastOp'.key = k)
         => TotalIn(files', k) = Len(getUserMessagesByRelationship(sessions, k))

C3_CountInv ==
  \A k \in RelationshipIds : hist.rebuilds[k] = 0 => Total(k) = hist.updates[k]

C3_MonotonicCount == [][C3_CountStep]_vars /\ []C3_CountInv

\* A third update in a row raised the count of its key to 3.
C3_Witness ==
  /\ lastOp.op = "message"
  /\ hist.updates[lastOp.key] = 3
  /\ hist.rebuilds[lastOp.key] = 0
  /\ Total(lastOp.key) = 3

\* C7. A message that contains no marker of the formal list and none of the
\* casual list leaves the stored politenessScore of its key unchanged.
NoMarker(text) ==
  \A i \in 1..Len(POLITENESS_MARKERS.formal), j \in 1..Len(POLITENESS_MARKERS.casual) :
    ~includes(text, POLITENESS_MARKERS.formal[i]) /\
    ~includes(text, POLITENESS_MARKERS.casual[j])

C7_PolitenessStable ==
  [][(now' # now /\ lastOp'.op = "message" /\ NoMarker(lastOp'.text))
       => ScoreIn(files', lastOp'.key) = ScoreIn(files, lastOp'.key)]_vars

\* A marker-free message was analyzed into a profile whose score is not 0.
C7_Witness ==
  /\ lastOp.op = "message"
  /\ NoMarker(lastOp.text)
  /\ Score(lastOp.key) # FZero

\* C9 as stated: two summaries with no updateProfile in between are equal.
C9_SummaryIdempotentAsStated ==
  (hist.prevSummary # <<>> /\ ~hist.updBetween) => hist.lastSummary = hist.prevSummary

\* C9, amended. Two getProfileSummary calls with no updateProfile, no
\* rebuildProfile and no relationship switch in between return identical
\* results, and GET /profile changes no stored state.
C9_SummaryInv ==
  (hist.prevSummary # <<>> /\ ~hist.chgBetween) => hist.lastSummary = hist.prevSummary

C9_SummaryReadOnly ==
  (now' # now /\ lastOp'.op = "profile")
    => (files' = files /\ sfile' = sfile /\ sessions' = sessions)

C9_SummaryIdempotent == []C9_SummaryInv /\ [][C9_SummaryReadOnly]_vars

\* Two summaries of a non-empty profile with nothing but a simulation reply
\* in between.
C9_Witness ==
  /\ hist.prevSummary # <<>>
  /\ ~hist.chgBetween
  /\ hist.lastSummary[1].totalMessages > 0
  /\ lastOp.op = "profile"

\* C10. A step changes the stored profile of no key other than the active
\* one; the profile stored for k is the analysis of exactly the texts fed
\* to it under k, each of which was submitted while k was the active
\* relationship.
C10_KeyInv ==
  \A k \in RelationshipIds :
    /\ SameButTime(StoredProfile(files, k), Fold(hist.fed[k], 1, createEmptyProfile))
    /\ Range(hist.fed[k]) \subseteq hist.seen[k]

C10_KeyFrame ==
  \A k \in RelationshipIds :
    files'[k] # files[k]
      => (k = getRelationship(sfile) /\ lastOp'.op \in {"message", "rebuild"})

C10_KeyIsolation == []C10_KeyInv /\ [][C10_KeyFrame]_vars

\* Two keys hold different profiles after the relationship was switched
\* between two updates.
C10_Witness ==
  /\ files["friend"] # NoFile
  /\ files["senior"] # NoFile
  /\ hist.fed["friend"] # hist.fed["senior"]

\* C2. With update and rebuild requests of one key in flight together and
\* served in any order, no update is lost: the stored count is the number
\* of texts analyzed into the stored profile, every update made since the
\* profile was absent is counted as long as no rebuild ran, and the stored
\* word and phrase counts are those of all these texts.
C2_NoLostUpdate ==
  \A k \in RelationshipIds :
    /\ Total(k) = Len(hist.fed[k])
    /\ hist.rebuilds[k] = 0 => Total(k) = hist.updates[k]
    /\ StoredProfile(files, k).wordFrequency =
         Fold(hist.fed[k], 1, createEmptyProfile).wordFrequency

\* Two updates were served, one of them while another update or a rebuild
\* request was in flight, and both are counted.
C2_Witness ==
  /\ overlaps >= 1
  /\ lastOp.op = "message"
  /\ hist.updates["friend"] = 2
  /\ hist.rebuilds["friend"] = 0
  /\ Total("friend") = 2


\* ------------------------------------------------ analyzer specification
\* analyzeMessage applied again and again to a profile that starts empty,
\* as updateProfile does between a load and a save.
\*   TextShort   "ne"                 length 1
\*   TextPair    "desu"               length 2
\*   TextLong    "soudana, maa."      length 8
TextShort == <<"ne">>
TextPair == <<"de", "su">>
TextLong == <<"so", "u", "da", "na", "TOUTEN", "ma", "a", "KUTEN">>
AnalyzerTexts == {TextShort, TextPair, TextLong}

Analyze ==
  /\ Len(wfed) < MaxMsgs
  /\ \E text \in AnalyzerTexts :
       /\ wp' = analyzeMessage(text, wp, Len(wfed) + 1)
       /\ wfed' = Append(wfed, text)
  /\ UNCHANGED <<sysVars, scoVars, phrVars>>

NextAnalyze == Analyze

SpecAnalyze == Init /\ [][NextAnalyze]_vars

RECURSIVE SumLen(_, _)
SumLen(texts, i) == IF i > Len(texts) THEN 0 ELSE Len(texts[i]) + SumLen(texts, i + 1)

\* The floating-point value nearest to the mean of the analyzed lengths.
RoundedMean == FDiv(FInt(SumLen(wfed, 1)), FInt(Len(wfed)))

\* |x - S/n| <= (ulps * n / 2^MantBits) * S/n, in integers.
WithinRounding(x, S, n, ulps) ==
  LET e == Min(x[2], 0)
      m == x[1] * Pow2(x[2] - e)
      scale == Pow2(0 - e)
  IN Abs(m * n - S * scale) * Pow2(MantBits) <= ulps * n * S * scale

\* C4 as stated: after updates with lengths L1..Ln applied to an empty
\* profile, averageLength equals the arithmetic mean of L1..Ln (read as
\* generously as floating point allows: the value nearest to the mean).
C4_AverageExact ==
  wp.totalMessages > 0 => wp.averageLength = RoundedMean

\* C4 amended: averageLength equals the arithmetic mean of L1..Ln up to
\* accumulated rounding, a relative error of at most 4 * n units of
\* 2^-MantBits (three roundings per message); it need not be the value
\* nearest to the mean.
C4_AverageWithinRounding ==
  /\ wp.totalMessages = Len(wfed)
  /\ wp.totalMessages > 0 =>
       WithinRounding(wp.averageLength, SumLen(wfed, 1), Len(wfed), 4)

\* Eight messages of mixed lengths were analyzed and the running average
\* has drifted off the nearest value to their mean.
C4_Witness ==
  /\ wp.totalMessages = 8
  /\ \E i, j \in 1..Len(wfed) : Len(wfed[i]) # Len(wfed[j])
  /\ wp.averageLength # RoundedMean
  /\ WithinRounding(wp.averageLength, SumLen(wfed, 1), Len(wfed), 4)

\* ---------------------------------------------- politeness specification
\* The politeness step of analyzeMessage applied again and again to a score
\* that starts at 0, over texts with every mix of markers:
\*   "desu"             1 formal, 0 casual    message score  1
\*   "dayo"             0 formal, 1 casual    message score -1
\*   "desudayo"         1 formal, 1 casual    message score  0
\*   "desumasudayo"     2 formal, 1 casual    message score  1/3
\*   "desudayodaze"     1 formal, 2 casual    message score -1/3
\*   "desudesudayo"     1 formal (twice), 1 casual   message score 0
\*   "un"               no marker
ScoreTexts ==
  { <<"de", "su">>,
    <<"da", "yo">>,
    <<"de", "su", "da", "yo">>,
    <<"de", "su", "ma", "su", "da", "yo">>,
    <<"de", "su", "da", "yo", "da", "ze">>,
    <<"de", "su", "de", "su", "da", "yo">>,
    <<"u", "n">> }

Rate ==
  /\ \E text \in ScoreTexts :
       /\ score' = PolitenessStep(score, text)
       /\ scoreText' = text
  /\ UNCHANGED <<sysVars, anaVars, phrVars>>

NextScore == Rate

SpecScore == Init /\ [][NextScore]_vars

\* C8: politenessScore stays within [-1, +1] in every profile reachable
\* from the empty profile.
C8_ScoreInRange ==
  FLeq(<<-1, 0>>, score) /\ FLeq(score, FOne)

\* A run of formal messages has taken the score above 9/10.
C8_Witness ==
  /\ scoreText = <<"de", "su">>
  /\ FLess(FDiv(FInt(9), FInt(10)), score)

\* -------------------------------------------------- phrase specification
\* The phrase step of analyzeMessage (mine, then prune) applied to maps at
\* the pruning threshold. A start map is what StartSize messages of three
\* kana leave behind: one phrase each, in the order sent, some sent twice
\* or three times.
KANA ==
  << "a", "i", "u", "e", "o", "ka", "ki", "ku", "ke", "ko",
     "sa", "shi", "su", "se", "so", "ta", "chi", "tsu" >>

KanaIndex == [c \in Range(KANA) |-> CHOOSE i \in 1..Len(KANA) : KANA[i] = c]

\* The i-th three-kana phrase, i = 0, 1, ...
PhraseNo(i) ==
  << KANA[(i \div (Len(KANA) * Len(KANA))) + 1],
     KANA[((i \div Len(KANA)) % Len(KANA)) + 1],
     KANA[(i % Len(KANA)) + 1] >>

\* How often the phrase was sent: 1, 2 or 3 times.
StartCount(key) == 1 + ((KanaIndex[key[1]] + KanaIndex[key[3]]) % 3)

StartMap(n) ==
  [ order |-> [i \in 1..n |-> PhraseNo(i - 1)],
    count |-> [key \in {PhraseNo(i) : i \in 0..(n - 1)} |-> StartCount(key)] ]

StartSizes == (PRUNE_THRESHOLD - 3)..PRUNE_THRESHOLD

\* Texts mined: "aaa" is in every start map; "nai" adds one phrase; "nnai"
\* adds three ("nna", "nai", "nnai").
PhraseTexts == { <<"a", "a", "a">>, <<"n", "a", "i">>, <<"n", "n", "a", "i">> }

InitPrune ==
  /\ SysInit /\ AnaIdle /\ ScoIdle
  /\ cp \in {StartMap(n) : n \in StartSizes}
  /\ cpMined = cp
  /\ cpFed = <<>>

Mine ==
  /\ Len(cpFed) < MaxMines
  /\ \E text \in PhraseTexts :
       /\ cpMined' = MinePhrases(cp, text)
       /\ cp' = PrunePhrases(cpMined')
       /\ cpFed' = Append(cpFed, text)
  /\ UNCHANGED <<sysVars, anaVars, scoVars>>

NextPrune == Mine

SpecPrune == InitPrune /\ [][NextPrune]_vars

Size(obj) == Len(obj.order)

\* C5: immediately after an update returns, commonPhrases has at most 5000
\* distinct entries.
C5_PhraseBound == Size(cp) <= PRUNE_THRESHOLD

\* A message took the map to exactly 5000 entries, which all stayed.
C5_Witness ==
  /\ cpFed # <<>>
  /\ Size(cpMined) = PRUNE_THRESHOLD
  /\ Size(cp) = PRUNE_THRESHOLD

C6_Witness ==
  /\ Size(cpMined) > PRUNE_THRESHOLD
  /\ Size(cp) = PRUNE_KEEP
  /\ \E k1, k2 \in (DOMAIN cpMined.count) \ (DOMAIN cp.count) :
        cpMined.count[k1] # cpMined.count[k2]

\* --------------------------------------------------- claims on loading
\* C11: loading a key that has no profile file does not fail and returns
\* the empty profile: totalMessages 0, averageLength 0, politenessScore 0,
\* every map empty, lastUpdated null.
C11_MissingLoadsEmpty ==
  \A k \in RelationshipIds :
    files[k] = NoFile =>
      LET p == loadProfile(files, k, sfile)
      IN /\ loadProfileError(files, k, sfile) = ""
         /\ p.totalMessages = 0
         /\ p.averageLength = <<0, 0>>
         /\ p.politenessScore = <<0, 0>>
         /\ \A f \in MAP_FIELDS : p[f].order = <<>> /\ DOMAIN p[f].count = {}
         /\ p.lastUpdated = 0

\* A summary loaded the profile of a key that has no file while another
\* key has one.
C11_Witness ==
  /\ lastOp.op = "profile"
  /\ lastOp.error = ""
  /\ files[lastOp.key] = NoFile
  /\ \E k \in RelationshipIds : files[k] # NoFile
  /\ lastOp.summary[1].totalMessages = 0

\* C12: loading a key whose file exists but does not hold a valid profile
\* fails; it returns neither an empty profile nor the invalid document.
C12_CorruptLoadFails ==
  \A k \in RelationshipIds :
    (files[k] # NoFile /\ ~IsStyleProfile(files[k][1]))
      => loadProfileError(files, k, sfile) # ""

\* C14: when updateProfile fails while a chat message is handled, the
\* request still returns the assistant's reply.
C14_ReplyDespiteFailedUpdate ==
  (lastOp.op = "message" /\ lastOp.error # "") => lastOp.reply # <<>>

\* C15: no storage failure inside updateProfile, rebuildProfile or
\* getProfileSummary is caught and passed over: each reaches the caller.
C15_FailuresReachCaller ==
  lastOp.op \in {"message", "rebuild", "profile"} => lastOp.swallowed = ""

C16_EmptyRebuild ==
  (lastOp.op = "rebuild"
     /\ getUserMessagesByRelationship(sessions, lastOp.key) = <<>>) =>
    LET returned == lastOp.profile[1]
        stored == loadProfile(files, lastOp.key, sfile)
    IN /\ files[lastOp.key] # NoFile
       /\ \A p \in {returned, stored} :
            /\ p.totalMessages = 0
            /\ p.averageLength = <<0, 0>>
            /\ p.politenessScore = <<0, 0>>
            /\ \A f \in MAP_FIELDS : p[f].order = <<>> /\ DOMAIN p[f].count = {}
            /\ p.lastUpdated = 0

\* A rebuild over an empty history replaced a profile that updates had
\* filled.
C16_Witness ==
  /\ lastOp.op = "rebuild"
  /\ getUserMessagesByRelationship(sessions, lastOp.key) = <<>>
  /\ hist.updates[lastOp.key] >= 1

\* C17: a rebuild replaces the stored profile wholesale. What it returns
\* and what it leaves in the file are the same profile, and depend on the
\* history of the key only: two rebuilds of a key over the same history
\* give the same profile (lastUpdated aside), whatever was stored before
\* each.
C17_RebuildWholesale ==
  \A k \in RelationshipIds :
    LET log == hist.rebuildLog[k]
    IN /\ \A i \in 1..Len(log) : log[i].stored = log[i].returned
       /\ \A i, j \in 1..Len(log) :
            (i < j /\ log[i].texts = log[j].texts) =>
               /\ SameButTime(log[i].returned, log[j].returned)
               /\ SameButTime(log[i].stored, log[j].stored)

\* A key was rebuilt twice over the same history, and an update had
\* changed the stored profile in between.
C17_Witness ==
  \E k \in RelationshipIds :
    LET log == hist.rebuildLog[k]
    IN /\ Len(log) >= 2
       /\ log[1].texts = log[2].texts
       /\ log[2].before # NoFile
       /\ ~SameButTime(JSONparse(log[2].before[1]), log[1].stored)

TextRich ==
  << "da", "yo", "ne", " ", "ji", "xya", "n", " ", "ya", "n", "na", " ",
     "xtu", "su", "ne", " ", "da", "ro", "u", " ", "ka", "mo", " ", "a",
     "no", "-", " ", "ya", "xtu", "pa", "ri", " ", "so", "u", "da", "na",
     " ", "ma", "a", " ", "na", "n", "ka", " ", "ho", "n", "to", " ", "u",
     "-", "n", " ", "e", "e", "to", " ", "e", "-", "to", " ", "e", "xtu",
     "to", " ", "ma", "ji", "de", " ", "K_ore", " ", "K_boku", " ",
     "K_watashi", " ", "u", "chi", " ", "wa", "shi", " ", "o", "i", "ra",
     " ", "a", "ta", "shi" >>

TextBump ==
  << "o", "i", "ra", " ", "e", "e", "to", " ", "yo" >>

TextEmpty == <<>>

WordTexts == {TextEmpty, TextRich, TextBump, TextShort, TextPair}

AnalyzeWords ==
  /\ Len(wfed) < MaxWordMsgs
  /\ \E text \in WordTexts :
       /\ wp' = analyzeMessage(text, wp, Len(wfed) + 1)
       /\ wfed' = Append(wfed, text)
  /\ UNCHANGED <<sysVars, scoVars, phrVars>>

NextWords == AnalyzeWords

SpecWords == Init /\ [][NextWords]_vars

\* The summary of the working profile, stored and read back as the
\* default relationship's profile.
SummaryOf(profile) ==
  getProfileSummary(saveProfile(NoFiles, profile, DEFAULT_SETTINGS.relationship, NoFile),
                    NoFile)

\* C19: analyzing the empty string raises no error, adds 1 to
\* totalMessages and leaves wordFrequency, sentenceEnders, fillerWords,
\* firstPerson, commonPhrases and politenessScore as they were.
C19_EmptyText ==
  [][ wfed' = Append(wfed, TextEmpty) =>
        /\ analyzeMessageError(TextEmpty, wp) = ""
        /\ wp'.totalMessages = wp.totalMessages + 1
        /\ wp'.wordFrequency = wp.wordFrequency
        /\ wp'.sentenceEnders = wp.sentenceEnders
        /\ wp'.fillerWords = wp.fillerWords
        /\ wp'.firstPerson = wp.firstPerson
        /\ wp'.commonPhrases = wp.commonPhrases
        /\ wp'.politenessScore = wp.politenessScore ]_vars

\* The empty string was analyzed into a profile whose maps and score a
\* text had filled before.
C19_Witness ==
  /\ Len(wfed) >= 2
  /\ wfed[Len(wfed)] = TextEmpty
  /\ wp.totalMessages = Len(wfed)
  /\ wp.politenessScore # <<0, 0>>
  /\ \A f \in {"wordFrequency", "sentenceEnders", "fillerWords", "firstPerson",
                "commonPhrases"} : wp[f].order # <<>>

\* C20: each top list of the summary (topWords 15, topSentenceEnders 10,
\* topFillerWords 10, firstPersonUsage 5) has min(N, size of its map)
\* entries, each an entry of the map with its count, no key twice, counts
\* never rising along the list, and no entry left out has a count
\* greater than one in the list.
C20_TopLists ==
  LET summary == SummaryOf(wp)
      TopOK(list, map, N) ==
        /\ Len(list) = (IF N <= Len(map.order) THEN N ELSE Len(map.order))
        /\ \A i \in 1..Len(list) :
             /\ list[i].text \in DOMAIN map.count
             /\ list[i].count = map.count[list[i].text]
        /\ \A i, j \in 1..Len(list) :
             i < j => list[i].text # list[j].text /\ list[i].count >= list[j].count
        /\ \A key \in DOMAIN map.count \ {list[i].text : i \in 1..Len(list)} :
             \A i \in 1..Len(list) : map.count[key] <= list[i].count
  IN /\ TopOK(summary.topWords, wp.wordFrequency, 15)
     /\ TopOK(summary.topSentenceEnders, wp.sentenceEnders, 10)
     /\ TopOK(summary.topFillerWords, wp.fillerWords, 10)
     /\ TopOK(summary.firstPersonUsage, wp.firstPerson, 5)

\* Every one of the four maps has more entries than its list takes, and
\* in none of them are the entries already in order of count.
C20_Witness ==
  LET Unsorted(map) ==
        \E i, j \in 1..Len(map.order) :
          i < j /\ map.count[map.order[i]] < map.count[map.order[j]]
  IN /\ Len(wp.wordFrequency.order) > 15 /\ Unsorted(wp.wordFrequency)
     /\ Len(wp.sentenceEnders.order) > 10 /\ Unsorted(wp.sentenceEnders)
     /\ Len(wp.fillerWords.order) > 10 /\ Unsorted(wp.fillerWords)
     /\ Len(wp.firstPerson.order) > 5 /\ Unsorted(wp.firstPerson)

\* ----------------------------------------------- claims on the summary
\* C21: topPhrases holds exactly the entries among the 15 highest-count
\* commonPhrases (ties in map order) that have count >= 2 and length >= 3,
\* best first: a phrase of count >= 2 and length >= 3 is left out only
\* when 15 entries rank ahead of it, so no phrase ranked below 15th is in
\* the list, also when the filter leaves fewer than 15.
C21_TopPhrases ==
  LET map == wp.commonPhrases
      n == Len(map.order)
      list == SummaryOf(wp).topPhrases
      texts == {list[i].text : i \in 1..Len(list)}
      at == [i \in 1..Len(list) |-> CHOOSE j \in 1..n : map.order[j] = list[i].text]
      Ahead(c1, p1, c2, p2) == c1 > c2 \/ (c1 = c2 /\ p1 < p2)
  IN /\ Len(list) <= 15
     /\ texts \subseteq DOMAIN map.count
     /\ \A i \in 1..Len(list) :
          /\ list[i].count = map.count[list[i].text]
          /\ list[i].count >= 2
          /\ Len(list[i].text) >= 3
     /\ \A i, j \in 1..Len(list) :
          i < j => Ahead(list[i].count, at[i], list[j].count, at[j])
     /\ \A p \in 1..n :
          LET key == map.order[p]
          IN (map.count[key] >= 2 /\ Len(key) >= 3 /\ key \notin texts) =>
               /\ Len(list) = 15
               /\ \A i \in 1..Len(list) :
                    Ahead(list[i].count, at[i], map.count[key], p)

\* The map holds more than 15 phrases, some of them seen twice, and
\* fewer than 15 of its 15 best pass the filter.
C21_Witness ==
  /\ Len(wp.commonPhrases.order) > 15
  /\ Len(SummaryOf(wp).topPhrases) \in 1..14

\* C22: the label of a summary is the polite one ("teinei") exactly when
\* politenessScore > 0.3, the casual one ("kajuaru") exactly when
\* politenessScore < -0.3, and the neutral one ("futsuu") otherwise; a
\* score that is exactly 0.3 is labelled neutral. 0.3 is the value the
\* literal has as a number, and the comparison is made on exact values.
C22_PolitenessLabel ==
  lastOp.summary # <<>> =>
    LET x == lastOp.summary[1].politenessScore
        t == FDiv(FInt(3), FInt(10))
        e == IF x[2] <= t[2] THEN x[2] ELSE t[2]
        xs == x[1] * Pow2(x[2] - e)
        ts == t[1] * Pow2(t[2] - e)
        label == lastOp.summary[1].politenessLabel
    IN /\ label \in {"teinei", "kajuaru", "futsuu"}
       /\ label = "teinei" <=> xs > ts
       /\ label = "kajuaru" <=> xs < 0 - ts
       /\ x = t => label = "futsuu"

\* A summary of a profile whose score one formal message moved from 0 to
\* exactly 0.3.
C22_Witness ==
  /\ lastOp.op = "profile"
  /\ lastOp.summary # <<>>
  /\ hist.updates[lastOp.key] = 1
  /\ lastOp.summary[1].politenessScore = FDiv(FInt(3), FInt(10))
  /\ lastOp.summary[1].politenessLabel = "futsuu"

\* ------------------------------------------- claims on the analysis steps
\* C23: when a message contains f formal and c casual markers, each list
\* member counted once however often it occurs, and f + c > 0, the new
\* score is 0.3 * (f - c) / (f + c) + 0.7 * old score, up to the rounding
\* of its four arithmetic operations; with f = c the score moves toward 0
\* and keeps its sign.
C23_PolitenessFormula ==
  [][ scoreText' # scoreText \/ score' # score =>
        LET text == scoreText'
            f == Cardinality({m \in Range(POLITENESS_MARKERS.formal) : includes(text, m)})
            c == Cardinality({m \in Range(POLITENESS_MARKERS.casual) : includes(text, m)})
            e0 == IF score[2] <= score'[2] THEN score[2] ELSE score'[2]
            e == IF e0 <= 0 THEN e0 ELSE 0
            scale == Pow2(0 - e)
            old == score[1] * Pow2(score[2] - e)
            new == score'[1] * Pow2(score'[2] - e)
            diff == 10 * (f + c) * new - 3 * (f - c) * scale - 7 * (f + c) * old
        IN f + c > 0 =>
             /\ Abs(diff) * Pow2(MantBits) <= 4 * 10 * (f + c) * scale
             /\ f = c => Abs(new) <= Abs(old) /\ new * old >= 0 ]_vars

\* A message with one formal marker twice and one casual marker once was
\* scored after the score had left 0.
C23_Witness ==
  /\ scoreText = <<"de", "su", "de", "su", "da", "yo">>
  /\ score # <<0, 0>>

\* C24: one analyzed message raises the count of a pattern of the
\* sentence-ender, filler-word or first-person list by exactly 1 when the
\* pattern occurs in the text, at one place or at several, and by 0 when
\* it does not; every pattern of a list that occurs is raised.
C24_OncePerMessage ==
  [][ wfed' # wfed =>
        LET text == wfed'[Len(wfed')]
            Occurs(pat) ==
              \E i \in 1..Len(text) : \E j \in i..Len(text) : SubSeq(text, i, j) = pat
            CountIn(map, pat) == IF pat \in DOMAIN map.count THEN map.count[pat] ELSE 0
            Rises(list, old, new) ==
              \A pat \in Range(list) :
                CountIn(new, pat) - CountIn(old, pat) = (IF Occurs(pat) THEN 1 ELSE 0)
        IN /\ Rises(JAPANESE_SENTENCE_ENDERS, wp.sentenceEnders, wp'.sentenceEnders)
           /\ Rises(FILLER_WORDS, wp.fillerWords, wp'.fillerWords)
           /\ Rises(FIRST_PERSON_PRONOUNS, wp.firstPerson, wp'.firstPerson) ]_vars

\* The same text was analyzed twice; it holds the ender "ne" at two
\* places and several enders, fillers and pronouns, and each stands at 2.
C24_Witness ==
  /\ wfed = <<TextRich, TextRich>>
  /\ wp.sentenceEnders.count[<<"ne">>] = 2
  /\ wp.sentenceEnders.count[<<"yo">>] = 2
  /\ wp.fillerWords.count[<<"ma", "a">>] = 2
  /\ wp.firstPerson.count[<<"K_ore">>] = 2

\* C25: in every stored profile, whatever updates, rebuilds and switches
\* of relationship came before, every key of sentenceEnders, fillerWords
\* and firstPerson is a member of the corresponding vocabulary list and
\* every count of these maps is a positive integer.
C25_ClosedVocabulary ==
  \A k \in RelationshipIds :
    LET profile == StoredProfile(files, k)
        Closed(map, list) ==
          /\ Range(map.order) = DOMAIN map.count
          /\ DOMAIN map.count \subseteq Range(list)
          /\ \A key \in DOMAIN map.count : map.count[key] \in Nat \ {0}
    IN /\ Closed(profile.sentenceEnders, JAPANESE_SENTENCE_ENDERS)
       /\ Closed(profile.fillerWords, FILLER_WORDS)
       /\ Closed(profile.firstPerson, FIRST_PERSON_PRONOUNS)

\* A profile was rebuilt after an update under the same relationship and
\* holds a sentence ender, a filler and a pronoun.
C25_Witness ==
  \E k \in RelationshipIds :
    /\ hist.updates[k] >= 1
    /\ hist.rebuilds[k] >= 1
    /\ StoredProfile(files, k).sentenceEnders.order # <<>>
    /\ StoredProfile(files, k).fillerWords.order # <<>>
    /\ StoredProfile(files, k).firstPerson.order # <<>>

\* ------------------------------------ mixed Japanese and English text
\* Messages with words in Latin letters, analyzed into the working
\* profile:
\*   TextValueOf   "valueOf"     TextToString  "toString"
\*   TextProto     "__proto__"   TextXyzw      "xyzw"
\*   TextAbAb      "ab ab"
TextValueOf == <<"v", "a", "l", "u", "e", "O", "f">>
TextToString == <<"t", "o", "S", "t", "r", "i", "n", "g">>
TextProto == <<"_", "_", "p", "r", "o", "t", "o", "_", "_">>
TextXyzw == <<"x", "y", "z", "w">>
TextAbAb == <<"a", "b", " ", "a", "b">>

MixedTexts == {TextValueOf, TextToString, TextProto, TextXyzw, TextAbAb}

AnalyzeMixed ==
  /\ Len(wfed) < MaxWordMsgs
  /\ \E text \in MixedTexts :
       /\ wp' = analyzeMessage(text, wp, Len(wfed) + 1)
       /\ wfed' = Append(wfed, text)
  /\ UNCHANGED <<sysVars, scoVars, phrVars>>

NextMixed == AnalyzeMixed

SpecMixed == Init /\ [][NextMixed]_vars

\* C26: one analyzed message raises the wordFrequency count of every
\* segment of length >= 2 (a maximal run of characters that are not white
\* space or punctuation) by the number of segments equal to it, and
\* changes nothing else of the map: no segment of length 1 and no part of
\* a segment is added.
C26_WordFrequency ==
  [][ wfed' # wfed =>
        LET text == wfed'[Len(wfed')]
            n == Len(text)
            Segments ==
              {r \in (1..n) \X (1..n) :
                 /\ r[1] <= r[2]
                 /\ \A k \in r[1]..r[2] : text[k] \notin SEPARATORS
                 /\ r[1] = 1 \/ text[r[1] - 1] \in SEPARATORS
                 /\ r[2] = n \/ text[r[2] + 1] \in SEPARATORS}
            Occurrences(key) ==
              Cardinality({r \in Segments : SubSeq(text, r[1], r[2]) = key})
            old == wp.wordFrequency
            new == wp'.wordFrequency
            CountIn(map, key) == IF key \in DOMAIN map.count THEN map.count[key] ELSE 0
            keys == DOMAIN old.count \cup DOMAIN new.count \cup
                      {SubSeq(text, r[1], r[2]) : r \in Segments}
        IN \A key \in keys :
             /\ CountIn(new, key) - CountIn(old, key) =
                  (IF Len(key) >= MIN_WORD THEN Occurrences(key) ELSE 0)
             /\ key \in DOMAIN new.count <=>
                  \/ key \in DOMAIN old.count
                  \/ Len(key) >= MIN_WORD /\ Occurrences(key) > 0 ]_vars

\* C27: one analyzed message raises the commonPhrases count of every
\* substring of length 3 to min(8, length of the text) that is not made of
\* white space and punctuation only by the number of positions it starts
\* at, and changes no other count; every key of the map has length 3 to
\* 8, and a text shorter than 3 characters adds nothing.
C27_PhraseMining ==
  [][ wfed' # wfed =>
        LET text == wfed'[Len(wfed')]
            n == Len(text)
            Starts(key) ==
              IF Len(key) >= MIN_PHRASE /\ Len(key) <= MAX_PHRASE /\ Len(key) <= n
                   /\ ~(Range(key) \subseteq SEPARATORS)
                THEN Cardinality({i \in 1..(n - Len(key) + 1) :
                                    SubSeq(text, i, i + Len(key) - 1) = key})
                ELSE 0
            old == wp.commonPhrases
            new == wp'.commonPhrases
            CountIn(map, key) == IF key \in DOMAIN map.count THEN map.count[key] ELSE 0
            keys == DOMAIN old.count \cup DOMAIN new.count \cup
                      {SubSeq(text, i, j) : i \in 1..n, j \in 1..n}
        IN /\ \A key \in keys : CountIn(new, key) - CountIn(old, key) = Starts(key)
           /\ \A key \in DOMAIN new.count : Len(key) >= MIN_PHRASE /\ Len(key) <= MAX_PHRASE
           /\ n < MIN_PHRASE => new = old ]_vars

\* ------------------------------------------- the log and the profile
\* C28: as long as every request was made under one relationship (the
\* relationship was never switched), after any chat messages, simulation
\* replies and rebuilds the stored profile's totalMessages is the number
\* of user messages the history holds for that relationship, and a
\* rebuild now would store the same counts.
C28_LogMatchesProfile ==
  sfile = NoFile =>
    LET relationship == getRelationship(sfile)
        stored == StoredProfile(files, relationship)
        userMessages == getUserMessagesByRelationship(sessions, relationship)
        rebuilt == rebuildProfile(sessions, sfile, now)
    IN /\ stored.totalMessages = Len(userMessages)
       /\ stored.wordFrequency = rebuilt.wordFrequency
       /\ stored.sentenceEnders = rebuilt.sentenceEnders
       /\ stored.fillerWords = rebuilt.fillerWords
       /\ stored.firstPerson = rebuilt.firstPerson
       /\ stored.commonPhrases = rebuilt.commonPhrases

\* ------------------------------------- the response generator's request
MAX_HISTORY == 20

\* conversation.getSession(sessionId).messages, <<>> for no such session.
getSession(ss, sessionId) ==
  IF SessionIndex(ss, sessionId) = 0 THEN <<>>
  ELSE ss[SessionIndex(ss, sessionId)].messages

\* getConversationMessages(sessionId): the last 20 messages of the
\* session as role and content.
getConversationMessages(ss, sessionId) ==
  LET all == getSession(ss, sessionId)
      messages == SubSeq(all, Max(1, Len(all) - MAX_HISTORY + 1), Len(all))
  IN [i \in 1..Len(messages) |->
        [role |-> IF messages[i].role = "user" THEN "user" ELSE "assistant",
         content |-> messages[i].text]]

\* A loop that keeps every message.
RECURSIVE KeepEveryRole(_, _, _, _)
KeepEveryRole(historyMessages, i, lastRole, messages) ==
  IF i > Len(historyMessages) THEN messages
  ELSE KeepEveryRole(historyMessages, i + 1, historyMessages[i].role,
                     Append(messages, historyMessages[i]))

\* The loop over historyMessages: a message of the role pushed last is
\* skipped.
RECURSIVE DropRepeatedRoles(_, _, _, _)
DropRepeatedRoles(historyMessages, i, lastRole, messages) ==
  IF i > Len(historyMessages) THEN messages
  ELSE IF historyMessages[i].role = lastRole
    THEN DropRepeatedRoles(historyMessages, i + 1, lastRole, messages)
    ELSE DropRepeatedRoles(historyMessages, i + 1, historyMessages[i].role,
                           Append(messages, historyMessages[i]))

\* while (messages.length > 0 && messages[0].role !== 'user') messages.shift()
RECURSIVE ShiftToUser(_)
ShiftToUser(messages) ==
  IF messages # <<>> /\ messages[1].role # "user"
    THEN ShiftToUser(Tail(messages))
    ELSE messages

\* The messages generateLLMResponse passes to anthropic.messages.create.
generateLLMResponseMessages(userText, ss, sessionId) ==
  LET current == [role |-> "user", content |-> userText]
      historyMessages == getConversationMessages(ss, sessionId)
      kept == DropRepeatedRoles(historyMessages, 1, "", <<>>)
      ended == IF kept = <<>> \/ kept[Len(kept)].role # "user"
                 THEN Append(kept, current) ELSE kept
      started == ShiftToUser(ended)
  IN IF started = <<>> THEN <<current>> ELSE started

\* POST /api/chat/message with the API key configured: the generator
\* builds its request after the user message is saved and before the
\* assistant message is.
DoMessageLLM(sessionId, text) ==
  DoMessageSending(sessionId, text,
    generateLLMResponseMessages(
      text, addMessage(sessions, sessionId, "user", text, "none", now + 1), sessionId))

\* POST /api/simulation/start: a new session whose first message is the
\* assistant's opener.
DoStart(sessionId) ==
  /\ SessionIndex(sessions, sessionId) = 0
  /\ sessions' = addMessage(sessions, sessionId, "assistant", ReplyText, "none", now + 1)
  /\ now' = now + 1
  /\ lastOp' = [NoOp EXCEPT !.op = "start", !.key = getRelationship(sfile)]
  /\ UNCHANGED <<files, sfile, hist>>

\* The specification of the generator's requests starts after
\* OlderExchanges chat messages were answered in session s1 under the
\* default relationship: s1 holds 20 messages, user and assistant in
\* turn. lastOp and hist observe the requests made from then on.
OlderExchanges == 10

OlderText == TextPlain

OlderMessages ==
  [i \in 1..(2 * OlderExchanges) |->
     [role |-> IF i % 2 = 1 THEN "user" ELSE "assistant",
      text |-> IF i % 2 = 1 THEN OlderText ELSE ReplyText,
      timestamp |-> (i + 1) \div 2,
      relationship |-> "none"]]

LLMSessionIds == {"s1", "s2"}
LLMTexts == {TextFormal, TextCasual}

InitLLM ==
  /\ files = UpdateEach(NoFiles, DEFAULT_SETTINGS.relationship,
                        [i \in 1..OlderExchanges |-> OlderText], 1)
  /\ sfile = NoFile
  /\ sessions = <<[id |-> "s1", messages |-> OlderMessages]>>
  /\ now = OlderExchanges
  /\ lastOp = NoOp
  /\ inflight = {}
  /\ overlaps = 0
  /\ hist = HistInit
  /\ AnaIdle /\ ScoIdle /\ PhrIdle

PostMessageLLM ==
  /\ now < OlderExchanges + MaxOps
  /\ \E sessionId \in LLMSessionIds, text \in LLMTexts : DoMessageLLM(sessionId, text)
  /\ SysFrame

PostReplyLLM ==
  /\ now < OlderExchanges + MaxOps
  /\ \E sessionId \in LLMSessionIds, text \in LLMTexts : DoReply(sessionId, text)
  /\ SysFrame

PostStart ==
  /\ now < OlderExchanges + MaxOps
  /\ \E sessionId \in LLMSessionIds : DoStart(sessionId)
  /\ SysFrame

NextLLM == PostMessageLLM \/ PostReplyLLM \/ PostStart

SpecLLM == InitLLM /\ [][NextLLM]_vars

\* C29: the last message of the list sent to the model is the current
\* user message: its role is user and its content is the text of the
\* request, also when the stored history holds two user messages next to
\* each other.
C29_LastIsCurrent ==
  (lastOp.op = "message" /\ lastOp.sent # <<>>) =>
    /\ lastOp.sent[Len(lastOp.sent)].role = "user"
    /\ lastOp.sent[Len(lastOp.sent)].content = lastOp.text

\* C30: for every stored session history the list sent to the model is
\* not empty, begins with a user message, alternates strictly between
\* user and assistant, and ends with a user message: the list the last
\* chat message sent, and the list the next request would send in any
\* session, known or new.
C30_Alternation ==
  LET WellFormed(messages) ==
        /\ messages # <<>>
        /\ messages[1].role = "user"
        /\ messages[Len(messages)].role = "user"
        /\ \A i \in 1..Len(messages) : messages[i].role \in {"user", "assistant"}
        /\ \A i \in 1..(Len(messages) - 1) : messages[i].role # messages[i + 1].role
  IN /\ (lastOp.op = "message" /\ lastOp.error = "") => WellFormed(lastOp.sent)
     /\ \A sessionId \in LLMSessionIds, text \in LLMTexts :
          WellFormed(generateLLMResponseMessages(text, sessions, sessionId))

\* A chat message was answered in a session of more than 20 messages
\* whose last 20 begin with an assistant message and hold user messages
\* next to each other; the list sent holds several messages.
C30_Witness ==
  /\ lastOp.op = "message"
  /\ Len(lastOp.sent) >= 3
  /\ \E sessionId \in LLMSessionIds :
       LET all == getSession(sessions, sessionId)
           upto == Len(all) - 1
       IN /\ upto > MAX_HISTORY
          /\ all[upto].text = lastOp.text
          /\ all[upto - MAX_HISTORY + 1].role = "assistant"
          /\ \E i \in (upto - MAX_HISTORY + 1)..(upto - 1) :
               all[i].role = "user" /\ all[i + 1].role = "user"

\* ------------------------------- pruning a map with an inherited name
\* The phrase step applied to a map at the pruning threshold that took
\* its first phrases from the message "valueOf". StartMixed is what that
\* message and then 4985 messages of three kana, each sent once, leave
\* behind: 5000 entries, "valueOf" the 15th.
StartMixed ==
  LET first == MinePhrases(EmptyObj, TextValueOf)
      rest == PRUNE_THRESHOLD - Len(first.order)
  IN [ order |-> first.order \o [i \in 1..rest |-> PhraseNo(i - 1)],
       count |-> first.count @@ [key \in {PhraseNo(i) : i \in 0..(rest - 1)} |-> 1] ]

\* Texts mined: "valueOf" and "val" are in the start map; "nai" adds one
\* phrase, "nnai" three, "nnn" one.
MixedPhraseTexts ==
  { TextValueOf, <<"v", "a", "l">>, <<"n", "a", "i">>, <<"n", "n", "a", "i">>,
    <<"n", "n", "n">> }

InitPruneMixed ==
  /\ SysInit /\ AnaIdle /\ ScoIdle
  /\ cp = StartMixed
  /\ cpMined = cp
  /\ cpFed = <<>>

MineMixed ==
  /\ Len(cpFed) < MaxMines
  /\ \E text \in MixedPhraseTexts :
       /\ cpMined' = MinePhrases(cp, text)
       /\ cp' = PrunePhrases(cpMined')
       /\ cpFed' = Append(cpFed, text)
  /\ UNCHANGED <<sysVars, anaVars, scoVars>>

NextPruneMixed == MineMixed

SpecPruneMixed == InitPruneMixed /\ [][NextPruneMixed]_vars
====
